---- MODULE Spec2Model ----
(***************************************************************************)
(* node-sheetbase: a spreadsheet presented as a document store.            *)
(*   src/lib/spreadsheet.js  class Spreadsheet  (the Grid Adapter)         *)
(*   src/lib/sheet.js        class Sheet        (the Document Engine)      *)
(*                                                                         *)
(* A JavaScript string is modelled as the sequence of its characters       *)
(* (<<"a","b">> is "ab", <<>> is ""), so that parsing, formatting and      *)
(* joining are computed.  null and an array hole (undefined) are the two   *)
(* one-element sequences Null and Hole, which no text equals because a     *)
(* text's elements are single characters.  A JavaScript array is a         *)
(* sequence whose unset positions hold Hole.                               *)
(***************************************************************************)
EXTENDS Integers, Sequences, FiniteSets, TLC

VARIABLES
  remote,   \* the spreadsheet as the service holds it
  data,     \* Spreadsheet.data: the cached snapshot, or Null
  last,     \* the call that returned last: its arguments, outcome and transport calls
  wrote,    \* the writing call that returned last
  nops,     \* the number of writing calls made so far
  inserts,  \* the inserts under way at the same time, each where it waits
  fetches   \* the loads under way at the same time, each with the reply it waits for

vars == <<remote, data, last, wrote, nops, inserts, fetches>>

----------------------------------------------------------------------------
(* Values *)

Null == <<"null">>
Hole == <<"undefined">>

\* !v for a cell value: null, undefined and "" are falsy
Falsy(v) == v = Null \/ v = Hole \/ v = <<>>

\* v || '' (sheet.js:351)
OrEmpty(v) == IF Falsy(v) THEN <<>> ELSE v

Letters == <<"A", "B", "C", "D", "E", "F", "G", "H", "I", "J", "K", "L", "M",
             "N", "O", "P", "Q", "R", "S", "T", "U", "V", "W", "X", "Y", "Z">>

Digits == <<"0", "1", "2", "3", "4", "5", "6", "7", "8", "9">>

IsDigit(c) == \E d \in 1..10 : Digits[d] = c

DigitVal(c) == (CHOOSE d \in 1..10 : Digits[d] = c) - 1

\* /^\d+$/.test(s) for a text s
AllDigits(s) == Len(s) > 0 /\ \A i \in 1..Len(s) : IsDigit(s[i])

RECURSIVE DigitsToNat(_)
DigitsToNat(s) ==
  IF Len(s) = 0 THEN 0
  ELSE 10 * DigitsToNat(SubSeq(s, 1, Len(s) - 1)) + DigitVal(s[Len(s)])

\* String(n) for an integer n >= 0
RECURSIVE NatToString(_)
NatToString(n) ==
  IF n < 10 THEN <<Digits[n + 1]>>
  ELSE NatToString(n \div 10) \o <<Digits[(n % 10) + 1]>>

\* The sequence s with its positions mapped by Op
SeqMap(Op(_), s) == [i \in 1..Len(s) |-> Op(s[i])]

RECURSIVE Flatten(_)
Flatten(ss) == IF Len(ss) = 0 THEN <<>> ELSE Head(ss) \o Flatten(Tail(ss))

\* Array.prototype.join(''): null and undefined elements join as ''
JoinEmpty(arr) == Flatten(SeqMap(OrEmpty, arr))

Max(a, b) == IF a >= b THEN a ELSE b

\* A conversion that takes the remainder of the index itself for the letter
RECURSIVE columnToLetterFromZero(_)
columnToLetterFromZero(column) ==
  IF column > 0
  THEN LET temp == column % 26
       IN columnToLetterFromZero(column \div 26) \o <<Letters[temp + 1]>>
  ELSE <<>>

\* Sheet.columnToLetter: 1-based column index to letters
RECURSIVE columnToLetter(_)
columnToLetter(column) ==
  IF column > 0
  THEN LET temp == (column - 1) % 26
       IN columnToLetter((column - temp - 1) \div 26) \o <<Letters[temp + 1]>>
  ELSE <<>>

\* letter.charCodeAt(i) - 64 for a capital letter
LetterVal(c) == CHOOSE d \in 1..26 : Letters[d] = c

\* Spreadsheet.columnLetterToIndex: sum of (code - 64) * 26^(length - i - 1)
RECURSIVE columnLetterToIndex(_)
columnLetterToIndex(letter) ==
  IF Len(letter) = 0 THEN 0
  ELSE 26 * columnLetterToIndex(SubSeq(letter, 1, Len(letter) - 1))
       + LetterVal(letter[Len(letter)])

----------------------------------------------------------------------------
(* The service behind GoogleApi.call.  A sheet of the service is           *)
(*   [id, title, rowCount, columnCount, values]                            *)
(* where values is the grid of cell texts, Null for an empty cell, held    *)
(* without trailing empty cells and without trailing empty rows (the form  *)
(* in which spreadsheets.get reports rowData).                             *)

RECURSIVE TrimRow(_)
TrimRow(row) ==
  IF Len(row) > 0 /\ row[Len(row)] = Null
  THEN TrimRow(SubSeq(row, 1, Len(row) - 1))
  ELSE row

RECURSIVE TrimRows(_)
TrimRows(rows) ==
  IF Len(rows) > 0 /\ rows[Len(rows)] = <<>>
  THEN TrimRows(SubSeq(rows, 1, Len(rows) - 1))
  ELSE rows

TrimGrid(rows) == TrimRows(SeqMap(TrimRow, rows))

CellAt(values, r, c) ==
  IF r <= Len(values) /\ c <= Len(values[r]) THEN values[r][c] ELSE Null

\* One written cell under USER_ENTERED: a JSON null (null, undefined, an array
\* hole) leaves the cell as it is, '' empties it, a text sets it.
WriteCell(old, v) ==
  IF v = Null \/ v = Hole THEN old ELSE IF v = <<>> THEN Null ELSE v

\* The grid with arr written into row r from column c on
WriteRow(values, r, c, arr) ==
  LET height == Max(Len(values), r)
      width  == Max(IF r <= Len(values) THEN Len(values[r]) ELSE 0, c + Len(arr) - 1)
      newRow == [j \in 1..width |->
                  IF j >= c /\ j < c + Len(arr)
                  THEN WriteCell(CellAt(values, r, j), arr[j - c + 1])
                  ELSE CellAt(values, r, j)]
  IN TrimGrid([i \in 1..height |->
                IF i = r THEN newRow
                ELSE IF i <= Len(values) THEN values[i] ELSE <<>>])

RECURSIVE WriteRows(_, _, _, _)
WriteRows(values, r, c, rows) ==
  IF Len(rows) = 0 THEN values
  ELSE WriteRows(WriteRow(values, r, c, Head(rows)), r + 1, c, Tail(rows))

RECURSIVE MaxLen(_)
MaxLen(rows) == IF Len(rows) = 0 THEN 0 ELSE Max(Len(Head(rows)), MaxLen(Tail(rows)))

\* The sequence s without its positions from+1..to
CutSeq(s, from, to) ==
  SubSeq(s, 1, IF from < Len(s) THEN from ELSE Len(s)) \o SubSeq(s, to + 1, Len(s))

SheetPos(rem, id) ==
  IF \E i \in 1..Len(rem) : rem[i].id = id
  THEN CHOOSE i \in 1..Len(rem) : rem[i].id = id
  ELSE 0

TitlePos(rem, title) ==
  IF \E i \in 1..Len(rem) : rem[i].title = title
  THEN CHOOSE i \in 1..Len(rem) : rem[i].title = title
  ELSE 0


----------------------------------------------------------------------------
(* GoogleApi.call(method, params).  A call in progress is threaded through *)
(* a record st = [remote, data, log, fail]: log is the sequence of         *)
(* transport calls the handler has issued, and fail is the position in it  *)
(* of the call the transport rejects (0: none).  A rejected call has no    *)
(* effect on the service.  Each operator returns [st, ok, res].            *)

Entry(method, d, reqs, ok) ==
  [method |-> method, data |-> d, requests |-> reqs, ok |-> ok]

Rejected(st) == Len(st.log) + 1 = st.fail

Logged(st, e) == [st EXCEPT !.log = Append(@, e)]

\* A range write 'title'!A<startRow>:ZZ<endRow> carrying the rows of values
RangeWrite(title, startRow, endRow, values) ==
  [title |-> title, startRow |-> startRow, endRow |-> endRow, values |-> values]

Request(kind, sheetId, dimension, startIndex, endIndex, length, title) ==
  [kind |-> kind, sheetId |-> sheetId, dimension |-> dimension,
   startIndex |-> startIndex, endIndex |-> endIndex, length |-> length,
   title |-> title]

\* spreadsheets.get with includeGridData: the whole spreadsheet.  A call that
\* is not ok is one that was rejected or answered without sheets, which load
\* treats alike (line 24).
ApiGet(st) ==
  LET ok == ~Rejected(st)
  IN [st  |-> Logged(st, Entry("spreadsheets.get", <<>>, <<>>, ok)),
      ok  |-> ok,
      res |-> IF ok THEN st.remote ELSE <<>>]

\* spreadsheets.values.append with INSERT_ROWS over 'title'!A:ZZ: the rows go
\* below the last row holding data, from the column c the service's table
\* detection settles on; the reply reports the range written.
ApiAppend(st, title, values, c) ==
  LET p  == TitlePos(st.remote, title)
      n  == Len(values)
      w  == MaxLen(values)
      ok == ~Rejected(st) /\ p > 0 /\ n > 0 /\ w > 0
      sh == st.remote[p]
      r  == Len(sh.values) + 1
      e  == Entry("spreadsheets.values.append", <<RangeWrite(title, 0, 0, values)>>, <<>>, ok)
  IN IF ~ok THEN [st |-> Logged(st, e), ok |-> FALSE, res |-> <<>>]
     ELSE [st  |-> Logged([st EXCEPT !.remote[p] =
                            [sh EXCEPT !.values = WriteRows(@, r, c, values),
                                       !.rowCount = @ + n,
                                       !.columnCount = Max(@, c + w - 1)]], e),
           ok  |-> TRUE,
           res |-> [sheet |-> title,
                    startCol |-> columnToLetter(c), startRow |-> NatToString(r),
                    endCol |-> columnToLetter(c + w - 1),
                    endRow |-> NatToString(r + n - 1),
                    updatedRows |-> n]]

\* spreadsheets.values.get of rows start..end: the texts of the cells, '' for
\* an empty cell before the last one of its row
ApiValuesGet(st, title, start, end) ==
  LET ok == ~Rejected(st) /\ TitlePos(st.remote, title) > 0
      e  == Entry("spreadsheets.values.get", <<RangeWrite(title, start, end, <<>>)>>, <<>>, ok)
      Texts(rows) == [i \in 1..Len(rows) |-> SeqMap(OrEmpty, rows[i])]
  IN [st  |-> Logged(st, e),
      ok  |-> ok,
      res |-> IF ok
              THEN Texts(SubSeq(st.remote[TitlePos(st.remote, title)].values, start,
                                Max(start - 1,
                                    IF end < Len(st.remote[TitlePos(st.remote, title)].values)
                                    THEN end
                                    ELSE Len(st.remote[TitlePos(st.remote, title)].values))))
              ELSE <<>>]

\* Whether the service accepts the range write d on the spreadsheet rem
WriteFits(rem, d) ==
  LET p == TitlePos(rem, d.title)
  IN /\ p > 0
     /\ d.startRow >= 1
     /\ Len(d.values) <= d.endRow - d.startRow + 1
     /\ d.startRow + Len(d.values) - 1 <= rem[p].rowCount
     /\ MaxLen(d.values) <= rem[p].columnCount

RECURSIVE ApplyWrites(_, _)
ApplyWrites(rem, ds) ==
  IF Len(ds) = 0 THEN rem
  ELSE LET d == Head(ds)
           p == TitlePos(rem, d.title)
       IN ApplyWrites([rem EXCEPT ![p].values = WriteRows(@, d.startRow, 1, d.values)],
                      Tail(ds))

\* spreadsheets.values.batchUpdate: every range write, or none when one of them
\* lies outside the sheet's declared dimensions
ApiValuesBatchUpdate(st, ds) ==
  LET ok == ~Rejected(st) /\ \A i \in 1..Len(ds) : WriteFits(st.remote, ds[i])
      e  == Entry("spreadsheets.values.batchUpdate", ds, <<>>, ok)
  IN [st  |-> Logged(IF ok THEN [st EXCEPT !.remote = ApplyWrites(@, ds)] ELSE st, e),
      ok  |-> ok,
      res |-> <<>>]

NewSheet(id, title) ==
  [id |-> id, title |-> title, rowCount |-> 1000, columnCount |-> 26, values |-> <<>>]

RECURSIVE MaxId(_)
MaxId(rem) == IF Len(rem) = 0 THEN 0 ELSE Max(Head(rem).id, MaxId(Tail(rem)))

\* Whether the service accepts request q on the spreadsheet rem
RequestFits(rem, q) ==
  LET p == SheetPos(rem, q.sheetId)
  IN CASE q.kind = "addSheet" -> TitlePos(rem, q.title) = 0
       [] q.kind = "deleteSheet" -> p > 0 /\ Len(rem) > 1
       [] q.kind = "appendDimension" -> p > 0 /\ q.length > 0
       [] q.kind = "deleteDimension" ->
            /\ p > 0
            /\ 0 <= q.startIndex /\ q.startIndex < q.endIndex
            /\ q.endIndex <= (IF q.dimension = "ROWS"
                              THEN rem[p].rowCount ELSE rem[p].columnCount)
            /\ q.endIndex - q.startIndex < (IF q.dimension = "ROWS"
                                            THEN rem[p].rowCount ELSE rem[p].columnCount)

\* The spreadsheet after request q
ApplyRequest(rem, q) ==
  LET p == SheetPos(rem, q.sheetId)
      n == q.endIndex - q.startIndex
  IN CASE q.kind = "addSheet" -> Append(rem, NewSheet(MaxId(rem) + 1, q.title))
       [] q.kind = "deleteSheet" -> CutSeq(rem, p - 1, p)
       [] q.kind = "appendDimension" ->
            IF q.dimension = "ROWS"
            THEN [rem EXCEPT ![p].rowCount = @ + q.length]
            ELSE [rem EXCEPT ![p].columnCount = @ + q.length]
       [] q.kind = "deleteDimension" ->
            IF q.dimension = "ROWS"
            THEN [rem EXCEPT ![p].rowCount = @ - n,
                             ![p].values = TrimGrid(CutSeq(@, q.startIndex, q.endIndex))]
            ELSE [rem EXCEPT ![p].columnCount = @ - n,
                             ![p].values =
                               TrimGrid([i \in 1..Len(@) |->
                                          CutSeq(@[i], q.startIndex, q.endIndex)])]

\* The requests of one batch applied in order: [ok, remote, replies]
RECURSIVE ApplyRequests(_, _, _)
ApplyRequests(rem, reqs, replies) ==
  IF Len(reqs) = 0 THEN [ok |-> TRUE, remote |-> rem, replies |-> replies]
  ELSE IF ~RequestFits(rem, Head(reqs))
       THEN [ok |-> FALSE, remote |-> rem, replies |-> <<>>]
       ELSE LET next == ApplyRequest(rem, Head(reqs))
            IN ApplyRequests(next, Tail(reqs),
                 Append(replies,
                        IF Head(reqs).kind = "addSheet" THEN next[Len(next)]
                        ELSE NewSheet(0, <<>>)))

\* spreadsheets.batchUpdate: the requests in order, all or none
ApiBatchUpdate(st, reqs) ==
  LET out == ApplyRequests(st.remote, reqs, <<>>)
      ok  == ~Rejected(st) /\ out.ok
      e   == Entry("spreadsheets.batchUpdate", <<>>, reqs, ok)
  IN [st  |-> Logged(IF ok THEN [st EXCEPT !.remote = out.remote] ELSE st, e),
      ok  |-> ok,
      res |-> IF ok THEN out.replies ELSE <<>>]


----------------------------------------------------------------------------
(* class Spreadsheet (src/lib/spreadsheet.js).  Each method is an operator *)
(* from the call in progress st to [st, status, ret]: status is "ok", or   *)
(* the kind of the error thrown ("NotFound" for 'sheet not found',         *)
(* "TransportError" for a rejected transport call).                        *)

NoData == [present |-> FALSE, sheets |-> <<>>]

\* A sheet selector: omitted, a number or a string
SelNone == [kind |-> "undefined", n |-> 0, s |-> <<>>]
SelNum(n) == [kind |-> "number", n |-> n, s |-> <<>>]
SelStr(s) == [kind |-> "string", n |-> 0, s |-> s]

NoSheet == NewSheet(0, <<>>)

Ret(st, status, ret) == [st |-> st, status |-> status, ret |-> ret]

\* A mutator that leaves the snapshot in place
InvalidateSkipped(st) == st

\* this.data = null, the last step of every mutator but expand
Invalidate(st) == [st EXCEPT !.data = NoData]

\* load, lines 28-58: the sheets of the reply, each cell its text or null
SnapshotSheets(result) ==
  [i \in 1..Len(result) |->
    [id |-> result[i].id,
     title |-> result[i].title,
     rowCount |-> result[i].rowCount,
     columnCount |-> result[i].columnCount,
     values |-> result[i].values]]

\* A load that lets the failure of its fetch reach the caller
loadRaising(st) ==
  LET Loaded(c) ==
        IF c.ok
        THEN Ret([c.st EXCEPT !.data = [present |-> TRUE, sheets |-> SnapshotSheets(c.res)]],
                 "ok", [present |-> TRUE, sheets |-> SnapshotSheets(c.res)])
        ELSE Ret(c.st, "TransportError", NoData)
  IN IF st.data.present THEN Ret(st, "ok", st.data) ELSE Loaded(ApiGet(st))

\* Spreadsheet.load: ret is the snapshot, NoData when there is none
load(st) ==
  LET Keep(s, d) == Ret([s EXCEPT !.data = d], "ok", d)
      Loaded(c) ==
        IF c.ok THEN Keep(c.st, [present |-> TRUE, sheets |-> SnapshotSheets(c.res)])
        ELSE Ret(c.st, "ok", st.data)
  IN IF st.data.present THEN Ret(st, "ok", st.data) ELSE Loaded(ApiGet(st))

\* String(id || 0)
SelString(sel) ==
  CASE sel.kind = "undefined" -> <<"0">>
    [] sel.kind = "number" -> NatToString(sel.n)
    [] sel.kind = "string" -> IF sel.s = <<>> THEN <<"0">> ELSE sel.s

SheetMatches(sh, sel) ==
  \/ NatToString(sh.id) = SelString(sel)
  \/ sel.kind = "string" /\ sh.title = sel.s

\* Spreadsheet.getSheet: ret is [found, sheet], the first sheet that matches
getSheet(st, sel) ==
  LET First(l, hits) ==
        IF hits = {}
        THEN Ret(l.st, "ok", [found |-> FALSE, sheet |-> NoSheet])
        ELSE Ret(l.st, "ok",
                 [found |-> TRUE,
                  sheet |-> l.ret.sheets[CHOOSE i \in hits : \A j \in hits : i <= j]])
      Pick(l) ==
        IF ~l.ret.present
        THEN Ret(l.st, "NotFound", [found |-> FALSE, sheet |-> NoSheet])
        ELSE First(l, {i \in 1..Len(l.ret.sheets) : SheetMatches(l.ret.sheets[i], sel)})
  IN Pick(load(st))

\* A request whose failure is taken for success
requestSwallowed(st, requests) ==
  LET out == ApplyRequests(st.remote, requests, <<>>)
      r   == ApiBatchUpdate(st, requests)
  IN IF out.ok THEN [r EXCEPT !.ok = TRUE, !.res = out.replies] ELSE r

\* Spreadsheet.request
request(st, requests) == ApiBatchUpdate(st, requests)

\* Spreadsheet.addSheet
addSheet(st, title) ==
  LET Done(c) ==
        IF ~c.ok THEN Ret(c.st, "TransportError", NoSheet)
        ELSE Ret(Invalidate(c.st), "ok",
                 [id |-> c.res[1].id, title |-> c.res[1].title,
                  rowCount |-> c.res[1].rowCount,
                  columnCount |-> c.res[1].columnCount, values |-> <<>>])
  IN Done(request(st, <<Request("addSheet", 0, "", 0, 0, 0, title)>>))

\* Spreadsheet.deleteSheet
deleteSheet(st, sel) ==
  LET Done(c) ==
        IF ~c.ok THEN Ret(c.st, "TransportError", <<>>)
        ELSE Ret(Invalidate(c.st), "ok", <<>>)
      Got(g) ==
        IF g.status # "ok" \/ ~g.ret.found THEN Ret(g.st, "NotFound", <<>>)
        ELSE Done(request(g.st,
               <<Request("deleteSheet", g.ret.sheet.id, "", 0, 0, 0, <<>>)>>))
  IN Got(getSheet(st, sel))

\* Array.prototype.slice(from, to) for 0 <= from
Slice(arr, from, to) ==
  SubSeq(arr, from + 1, IF to < Len(arr) THEN to ELSE Len(arr))

\* Spreadsheet.list, the cached branch: rows start..start+limit-1 of the sheet
list(st, sel, start, limit) ==
  LET Got(g, end) ==
        IF g.status # "ok" \/ ~g.ret.found THEN Ret(g.st, "NotFound", <<>>)
        ELSE Ret(g.st, "ok", Slice(g.ret.sheet.values, start - 1, end))
  IN Got(getSheet(st, sel), start + limit - 1)

\* Spreadsheet.list with fresh set, lines 141-147: the rows as the service
\* has them, read past the snapshot
listFresh(st, sel, start, limit) ==
  LET Fetched(r) ==
        IF ~r.ok THEN Ret(r.st, "TransportError", <<>>) ELSE Ret(r.st, "ok", r.res)
      Got(g, end) ==
        IF g.status # "ok" \/ ~g.ret.found THEN Ret(g.st, "NotFound", <<>>)
        ELSE Fetched(ApiValuesGet(g.st, g.ret.sheet.title, start, end))
  IN Got(getSheet(st, sel), start + limit - 1)

\* A row given to the adapter: an array of cells, or an object whose keys are
\* column letters or column numbers (pairs <<key, value>> in Object.keys order)
Arr(cells) == [isArray |-> TRUE, elems |-> cells]
Obj(pairs) == [isArray |-> FALSE, elems |-> pairs]

\* line[index] = v on an array: positions skipped over stay holes
SetAt(line, index, v) ==
  [j \in 1..Max(Len(line), index + 1) |->
    IF j = index + 1 THEN v ELSE IF j <= Len(line) THEN line[j] ELSE Hole]

AllLetters(s) == Len(s) > 0 /\ \A i \in 1..Len(s) : \E d \in 1..26 : Letters[d] = s[i]

RECURSIVE PlaceKeys(_, _)
PlaceKeys(line, pairs) ==
  IF Len(pairs) = 0 THEN line
  ELSE LET key == Head(pairs)[1]
           index == IF AllLetters(key) THEN columnLetterToIndex(key) - 1
                    ELSE IF AllDigits(key) THEN DigitsToNat(key) - 1
                    ELSE -1
       IN PlaceKeys(IF index >= 0 THEN SetAt(line, index, Head(pairs)[2]) ELSE line,
                    Tail(pairs))

\* Spreadsheet.dataToValue
dataToValue(d) == IF d.isArray THEN d.elems ELSE PlaceKeys(<<>>, d.elems)

\* A corrective row without its padding
PadNone(value, columnNo) == value

\* value.concat(new Array(columnNo - value.length).fill(''))
PadTo(value, columnNo) ==
  value \o [j \in 1..(columnNo - Len(value)) |-> <<>>]

\* Spreadsheet.append: rows is the sequence of rows to append, c the column
\* the service starts the insertion at
append(st, rows, sel, c) ==
  LET Fixed(fix, result) ==
        IF ~fix.ok THEN Ret(fix.st, "TransportError", <<>>)
        ELSE Ret(Invalidate(fix.st), "ok", result)
      Parsed(title, values, a, startRow, endRow, columnNo, result) ==
        IF a.res.startCol # <<"A">>
        THEN Fixed(ApiValuesBatchUpdate(a.st,
                     <<RangeWrite(title, startRow, endRow,
                                  [i \in 1..Len(values) |-> PadTo(values[i], columnNo)])>>),
                   result)
        ELSE Ret(Invalidate(a.st), "ok", result)
      Appended(title, values, a) ==
        IF ~a.ok THEN Ret(a.st, "TransportError", <<>>)
        ELSE Parsed(title, values, a, DigitsToNat(a.res.startRow),
                    DigitsToNat(a.res.endRow), columnLetterToIndex(a.res.endCol),
                    [sheet |-> a.res.sheet,
                     startRow |-> DigitsToNat(a.res.startRow),
                     endRow |-> DigitsToNat(a.res.endRow),
                     insertedRows |-> a.res.updatedRows])
      Got(g, values) ==
        IF g.status # "ok" \/ ~g.ret.found THEN Ret(g.st, "NotFound", <<>>)
        ELSE Appended(g.ret.sheet.title, values,
                      ApiAppend(g.st, g.ret.sheet.title, values, c))
  IN Got(getSheet(st, sel), SeqMap(dataToValue, rows))

\* A JavaScript number: an integer or NaN
Num(n) == [nan |-> FALSE, n |-> n]
NaN == [nan |-> TRUE, n |-> 0]

\* Number(s) for a text of letters and digits: '' is 0, digits their value
TextToNumber(s) ==
  IF s = <<>> THEN Num(0) ELSE IF AllDigits(s) THEN Num(DigitsToNat(s)) ELSE NaN

\* Number(array): the array is first converted to the string of its elements
\* joined by ',' (null and undefined as ''), so that only an array of at most
\* one element can be a number
ArrayToNumber(arr) ==
  IF Len(arr) = 0 THEN Num(0)
  ELSE IF Len(arr) = 1 THEN TextToNumber(OrEmpty(arr[1]))
  ELSE NaN

\* Spreadsheet.update, lines 226-242: the overruns [addRows, addColumns] of
\* the rows to update, computed row by row
RECURSIVE Overrun(_, _, _, _)
Overrun(updateRows, selectedSheet, addRows, addColumns) ==
  IF Len(updateRows) = 0 THEN [addRows |-> addRows, addColumns |-> addColumns]
  ELSE LET item == Head(updateRows)
           value == ArrayToNumber(dataToValue(item.data))
           rows == IF item.row > selectedSheet.rowCount
                      /\ item.row - selectedSheet.rowCount > addRows
                   THEN item.row - selectedSheet.rowCount
                   ELSE addRows
           columns == IF ~value.nan
                         /\ value.n > selectedSheet.columnCount
                         /\ value.n - selectedSheet.columnCount > addColumns
                      THEN value.n - selectedSheet.columnCount
                      ELSE addColumns
       IN Overrun(Tail(updateRows), selectedSheet, rows, columns)

\* Spreadsheet.expand: ret is whether a request was sent
expand(st, rows, columns, sheetId) ==
  LET Done(x) ==
        IF ~x.ok THEN Ret(x.st, "TransportError", FALSE) ELSE Ret(x.st, "ok", TRUE)
      Send(requests) ==
        IF Len(requests) = 0 THEN Ret(st, "ok", FALSE)
        ELSE Done(request(st, requests))
  IN Send((IF rows # 0
           THEN <<Request("appendDimension", sheetId, "ROWS", 0, 0, rows, <<>>)>>
           ELSE <<>>)
          \o (IF columns # 0
              THEN <<Request("appendDimension", sheetId, "COLUMNS", 0, 0, columns, <<>>)>>
              ELSE <<>>))

\* Spreadsheet.update: updateRows is the sequence of [row, data] to write
\* (given absent, the call returns at line 219)
update(st, given, updateRows, sel, upsert) ==
  LET Written(w, n) ==
        IF ~w.ok THEN Ret(w.st, "TransportError", <<>>)
        ELSE Ret(Invalidate(w.st), "ok", [updatedRows |-> n])
      Expanded(x, d) ==
        IF x.status # "ok" THEN Ret(x.st, x.status, <<>>)
        ELSE Written(ApiValuesBatchUpdate(x.st, d), Len(d))
      Grow(g, over, d) ==
        Expanded(IF upsert
                 THEN expand(g.st, over.addRows, over.addColumns, g.ret.sheet.id)
                 ELSE Ret(g.st, "ok", FALSE),
                 d)
      Got(g) ==
        IF g.status # "ok" \/ ~g.ret.found THEN Ret(g.st, "NotFound", <<>>)
        ELSE Grow(g, Overrun(updateRows, g.ret.sheet, 0, 0),
                  [i \in 1..Len(updateRows) |->
                    RangeWrite(g.ret.sheet.title, updateRows[i].row, updateRows[i].row,
                               <<dataToValue(updateRows[i].data)>>)])
  IN IF ~given THEN Ret(st, "ok", [updatedRows |-> 0])
     ELSE Got(getSheet(st, sel))

\* rows.sort((a, b) => b - a): a stable sort into descending order
RECURSIVE InsertDesc(_, _)
InsertDesc(sorted, a) ==
  IF Len(sorted) = 0 THEN <<a>>
  ELSE IF Head(sorted) >= a THEN <<Head(sorted)>> \o InsertDesc(Tail(sorted), a)
  ELSE <<a>> \o sorted

\* The rows in the order given
Unsorted(rows) == rows

RECURSIVE SortDesc(_)
SortDesc(rows) ==
  IF Len(rows) = 0 THEN <<>>
  ELSE InsertDesc(SortDesc(SubSeq(rows, 1, Len(rows) - 1)), rows[Len(rows)])

\* Spreadsheet.delete, lines 275-288: one request per row, highest row first
RowRequests(rows, sheetId) ==
  LET querys == SortDesc(rows)
  IN [i \in 1..Len(querys) |->
       Request("deleteDimension", sheetId, "ROWS", querys[i] - 1, querys[i], 0, <<>>)]

\* Spreadsheet.delete, lines 292-305: one request per column, in the given order
ColumnRequests(columns, sheetId) ==
  [i \in 1..Len(columns) |->
    Request("deleteDimension", sheetId, "COLUMNS", columns[i] - 1, columns[i], 0, <<>>)]

\* Spreadsheet.delete: rows and columns are arrays of positions (<<>> when
\* absent).  deletedColumnsCount is never initialised (line 273 sets
\* deleteColumnsCount), so that it stays undefined without columns and line
\* 304 makes it NaN with columns: it is [defined, nan, n].
delete(st, rows, columns, sel) ==
  LET result == [ok |-> 1, deletedRowsCount |-> Len(rows), deleteColumnsCount |-> 0,
                 deletedColumnsCount |->
                   [defined |-> Len(columns) > 0, nan |-> Len(columns) > 0, n |-> 0]]
      Done(x) ==
        IF ~x.ok THEN Ret(x.st, "TransportError", <<>>)
        ELSE Ret(Invalidate(x.st), "ok", result)
      Send(g, requests) ==
        IF Len(requests) = 0 THEN Ret(Invalidate(g.st), "ok", result)
        ELSE Done(request(g.st, requests))
      Got(g) ==
        IF g.status # "ok" \/ ~g.ret.found THEN Ret(g.st, "NotFound", <<>>)
        ELSE Send(g, RowRequests(rows, g.ret.sheet.id)
                     \o ColumnRequests(columns, g.ret.sheet.id))
  IN Got(getSheet(st, sel))

----------------------------------------------------------------------------
(* class Sheet (src/lib/sheet.js).  A document is [row, fields]: row is    *)
(* its _row and fields maps each of its other keys to a text.  A result    *)
(* of valuesToData is [docs, hasHeader, header], header being the _header  *)
(* attribute of the array.  The options modelled are limit, skip, sort and *)
(* header of find, and startRow of valuesToData.                           *)

\* this.options.sheet of the Sheet instance: not set, so the sheet with id 0
SheetOption == SelNone

RowKey == <<"_", "r", "o", "w">>

Undefined == <<"u", "n", "d", "e", "f", "i", "n", "e", "d">>

NoDocs == [docs |-> <<>>, hasHeader |-> FALSE, header |-> <<>>]

\* valuesToData, lines 349-353: the fields of one row.  forEach passes over
\* the holes of the row, and a cell below an empty header cell is dropped.
FieldsOf(header, value) ==
  LET js == {j \in 1..Len(value) :
               value[j] # Hole /\ j <= Len(header) /\ ~Falsy(header[j])}
  IN [h \in {header[j] : j \in js} |->
       OrEmpty(value[CHOOSE j \in js :
                       header[j] = h /\ \A k \in js : header[k] = h => k <= j])]

\* Sheet.valuesToData: startRow is 0 when the option is absent
valuesToData(values, startRow, includeHeader) ==
  IF Len(values) = 0 THEN NoDocs
  ELSE LET header == values[1]
           kept == SelectSeq([i \in 1..Len(values) |-> i],
                             LAMBDA i : i > 1 /\ JoinEmpty(values[i]) # <<>>)
       IN [docs |-> [k \in 1..Len(kept) |->
                      [row |-> IF startRow # 0 THEN startRow + kept[k] - 2 ELSE kept[k],
                       fields |-> FieldsOf(header, values[kept[k]])]],
           hasHeader |-> includeHeader,
           header |-> IF includeHeader THEN header ELSE <<>>]

\* A query is [given, terms]: not given stands for null or undefined, and
\* each term [key, kind, s, n] is a string s or a number n to be equal to, or
\* an object {$gt: n}, {$lt: n}, {$gte: n} or {$lte: n} of kind "$gt", ...
NoQuery == [given |-> FALSE, terms |-> <<>>]
Query(terms) == [given |-> TRUE, terms |-> terms]
TermStr(key, s) == [key |-> key, kind |-> "string", s |-> s, n |-> 0]
TermNum(key, n) == [key |-> key, kind |-> "number", s |-> <<>>, n |-> n]
TermCmp(key, op, n) == [key |-> key, kind |-> op, s |-> <<>>, n |-> n]

\* Sheet.buildFilter for strings without '*', for numbers and for the
\* comparison operators: a term [key, type, value, n], n being the operand of
\* a comparison
buildFilter(query) ==
  [i \in 1..Len(query.terms) |->
    [key |-> query.terms[i].key,
     type |-> CASE query.terms[i].kind = "$gt" -> "gt"
                [] query.terms[i].kind = "$lt" -> "lt"
                [] query.terms[i].kind = "$gte" -> "gte"
                [] query.terms[i].kind = "$lte" -> "lte"
                [] OTHER -> "string",
     value |-> IF query.terms[i].kind = "string" THEN query.terms[i].s
               ELSE IF query.terms[i].kind = "number" THEN NatToString(query.terms[i].n)
               ELSE <<>>,
     n |-> query.terms[i].n]]

ItemString(item, key) ==
  IF key = RowKey THEN NatToString(item.row)
  ELSE IF key \in DOMAIN item.fields THEN item.fields[key]
  ELSE Undefined

\* parseInt(s) of a text without blanks: [nan, n], the number that the sign
\* and the longest run of digits at the start of s read as, NaN without a digit
parseInt(s) ==
  LET Signed(sign, t) ==
        LET run == CHOOSE k \in 0..Len(t) :
                     /\ \A i \in 1..k : IsDigit(t[i])
                     /\ k < Len(t) => ~IsDigit(t[k + 1])
        IN IF run = 0 THEN [nan |-> TRUE, n |-> 0]
           ELSE [nan |-> FALSE, n |-> sign * DigitsToNat(SubSeq(t, 1, run))]
  IN IF Len(s) > 0 /\ s[1] = "-" THEN Signed(-1, Tail(s))
     ELSE IF Len(s) > 0 /\ s[1] = "+" THEN Signed(1, Tail(s))
     ELSE Signed(1, s)

\* Sheet.buildFilterFn: no term fails on the item.  A comparison with NaN is
\* false, so that a value parseInt cannot read fails no comparison term.
filterFn(filter, item) ==
  ~\E i \in 1..Len(filter) :
      LET f == filter[i]
          Fails(p) ==
            CASE f.type = "gt" -> ~p.nan /\ p.n <= f.n
              [] f.type = "lt" -> ~p.nan /\ p.n >= f.n
              [] f.type = "gte" -> ~p.nan /\ p.n < f.n
              [] f.type = "lte" -> ~p.nan /\ p.n > f.n
              [] OTHER -> FALSE
      IN IF f.type = "string" THEN ItemString(item, f.key) # f.value
         ELSE Fails(parseInt(ItemString(item, f.key)))

Lower == <<"a", "b", "c", "d", "e", "f", "g", "h", "i", "j", "k", "l", "m",
           "n", "o", "p", "q", "r", "s", "t", "u", "v", "w", "x", "y", "z">>

CharRank(c) ==
  LET order == Digits \o <<"_">> \o Lower
  IN CHOOSE r \in 1..Len(order) : order[r] = c

\* a.localeCompare(b) for texts of digits and lower-case letters: -1, 0 or 1
RECURSIVE localeCompare(_, _)
localeCompare(a, b) ==
  IF Len(a) = 0 THEN (IF Len(b) = 0 THEN 0 ELSE -1)
  ELSE IF Len(b) = 0 THEN 1
  ELSE IF CharRank(Head(a)) < CharRank(Head(b)) THEN -1
  ELSE IF CharRank(Head(a)) > CharRank(Head(b)) THEN 1
  ELSE localeCompare(Tail(a), Tail(b))

\* Sheet.buildSortFn: the comparison of a and b under sort, a sequence of
\* <<key, weight>>.  An absent field compares as the text 'undefined'.
RECURSIVE sortFn(_, _, _)
sortFn(sort, a, b) ==
  IF Len(sort) = 0 THEN 0
  ELSE LET key == Head(sort)[1]
           desc == Head(sort)[2] < 0
           av == ItemString(a, key)
           bv == ItemString(b, key)
           number == key = RowKey \/ (AllDigits(av) /\ AllDigits(bv))
           n == IF number THEN DigitsToNat(av) - DigitsToNat(bv)
                ELSE localeCompare(av, bv)
           m == IF desc /\ n # 0 THEN (IF n > 0 THEN -1 ELSE 1) ELSE n
       IN IF m # 0 THEN m ELSE sortFn(Tail(sort), a, b)

\* result.sort(sortFn): stable
RECURSIVE InsertSorted(_, _, _)
InsertSorted(sorted, a, sort) ==
  IF Len(sorted) = 0 THEN <<a>>
  ELSE IF sortFn(sort, sorted[Len(sorted)], a) <= 0 THEN Append(sorted, a)
  ELSE Append(InsertSorted(SubSeq(sorted, 1, Len(sorted) - 1), a, sort),
              sorted[Len(sorted)])

RECURSIVE SortDocs(_, _)
SortDocs(docs, sort) ==
  IF Len(docs) = 0 THEN <<>>
  ELSE InsertSorted(SortDocs(SubSeq(docs, 1, Len(docs) - 1), sort), docs[Len(docs)], sort)

\* The options of find: limit (when hasLimit), skip, sort and header
Options(hasLimit, limit, skip, sort, header) ==
  [hasLimit |-> hasLimit, limit |-> limit, skip |-> skip, sort |-> sort,
   header |-> header]

NoOptions == Options(FALSE, 0, 0, <<>>, FALSE)

\* Sheet.filterData
filterData(d, query, options) ==
  LET Window(sorted, skip, limit) ==
        IF skip > 0 \/ limit > 0 THEN Slice(sorted, skip, skip + limit) ELSE sorted
      Sorted(filtered) ==
        Window(IF Len(options.sort) > 0 THEN SortDocs(filtered, options.sort)
               ELSE filtered,
               options.skip, IF options.hasLimit THEN options.limit ELSE 0)
      Filtered(filter) ==
        Sorted(SelectSeq(d.docs, LAMBDA item : filterFn(filter, item)))
  IN IF Len(d.docs) = 0 THEN d
     ELSE [d EXCEPT !.docs = Filtered(buildFilter(query))]

\* The default of list's limit option
DefaultLimit == 2000000

\* Sheet.find
find(st, query, options) ==
  LET Listed(l) ==
        IF l.status # "ok" THEN Ret(l.st, l.status, NoDocs)
        ELSE Ret(l.st, "ok",
                 filterData(valuesToData(l.ret, 0, options.header), query, options))
  IN Listed(list(st, SheetOption, 1,
                 IF options.hasLimit THEN options.limit ELSE DefaultLimit))

\* Sheet.findOne: ret is [found, doc], the last document of find with limit 1
findOne(st, query, options) ==
  LET Pop(f, n) ==
        IF f.status # "ok" THEN Ret(f.st, f.status, [found |-> FALSE, doc |-> NoDocs])
        ELSE IF n = 0 THEN Ret(f.st, "ok", [found |-> FALSE, doc |-> NoDocs])
        ELSE Ret(f.st, "ok", [found |-> TRUE, doc |-> f.ret.docs[n]])
      Found(f) == Pop(f, Len(f.ret.docs))
  IN Found(find(st, query, [options EXCEPT !.hasLimit = TRUE, !.limit = 1]))

\* Sheet.getHeader
getHeader(st) ==
  LET Listed(l) ==
        IF l.status # "ok" THEN l
        ELSE Ret(l.st, "ok", IF Len(l.ret) > 0 THEN l.ret[1] ELSE <<>>)
  IN Listed(list(st, SheetOption, 1, 1))

\* A header rewrite that sends nothing
updateHeaderSkipped(st, header) == Ret(st, "ok", <<>>)

\* Sheet.updateHeader: the mapping {1: header} given to Spreadsheet.update
updateHeader(st, header) ==
  update(st, TRUE, <<[row |-> 1, data |-> Arr(header)]>>, SheetOption, TRUE)

\* header.indexOf(key), 0-based, -1 when absent
IndexOf(header, key) ==
  IF \E j \in 1..Len(header) : header[j] = key
  THEN (CHOOSE j \in 1..Len(header) :
          header[j] = key /\ \A k \in 1..(j - 1) : header[k] # key) - 1
  ELSE -1

\* The keys of one document each pushed onto the header, there or not
RECURSIVE PlaceItemPushed(_, _, _, _)
PlaceItemPushed(header, addHeaders, value, pairs) ==
  IF Len(pairs) = 0
  THEN [header |-> header, addHeaders |-> addHeaders, value |-> value]
  ELSE PlaceItemPushed(Append(header, Head(pairs)[1]), Append(addHeaders, Head(pairs)[1]),
                       SetAt(value, Len(header), Head(pairs)[2]), Tail(pairs))

\* Sheet.insert, lines 32-39: the keys of one document placed under the
\* header, a key the header lacks being pushed onto it
RECURSIVE PlaceItem(_, _, _, _)
PlaceItem(header, addHeaders, value, pairs) ==
  IF Len(pairs) = 0
  THEN [header |-> header, addHeaders |-> addHeaders, value |-> value]
  ELSE LET key == Head(pairs)[1]
           at == IndexOf(header, key)
       IN IF at = -1
          THEN PlaceItem(Append(header, key), Append(addHeaders, key),
                         SetAt(value, Len(header), Head(pairs)[2]), Tail(pairs))
          ELSE PlaceItem(header, addHeaders, SetAt(value, at, Head(pairs)[2]),
                         Tail(pairs))

\* Sheet.insert, lines 29-41: [header, addHeaders, values] for the documents
RECURSIVE PlaceItems(_, _, _, _)
PlaceItems(header, addHeaders, values, items) ==
  IF Len(items) = 0
  THEN [header |-> header, addHeaders |-> addHeaders, values |-> values]
  ELSE LET one == PlaceItem(header, addHeaders, <<>>, Head(items))
       IN PlaceItems(one.header, one.addHeaders, Append(values, one.value), Tail(items))

\* Sheet.insert: items is the sequence of documents, each a sequence of
\* <<key, text>>; c is the column the service starts the insertion at
insert(st, items, c) ==
  LET Appended(x, placed) ==
        IF x.status # "ok" THEN Ret(x.st, x.status, NoDocs)
        ELSE Ret(x.st, "ok",
                 valuesToData(<<placed.header>> \o placed.values, x.ret.startRow, FALSE))
      Updated(u, placed) ==
        IF u.status # "ok" THEN Ret(u.st, u.status, NoDocs)
        ELSE Appended(append(u.st, SeqMap(Arr, placed.values), SheetOption, c), placed)
      Placed(h, placed) ==
        Updated(IF Len(placed.addHeaders) > 0 THEN updateHeader(h.st, placed.header)
                ELSE Ret(h.st, "ok", <<>>),
                placed)
      Headed(h) ==
        IF h.status # "ok" THEN Ret(h.st, h.status, NoDocs)
        ELSE Placed(h, PlaceItems(h.ret, <<>>, <<>>, items))
  IN Headed(getHeader(st))

\* String(n) for an integer
IntToString(n) == IF n < 0 THEN <<"-">> \o NatToString(-n) ELSE NatToString(n)

\* item[key] || ''
ItemOrEmpty(item, key) ==
  IF key = RowKey THEN NatToString(item.row)
  ELSE IF key \in DOMAIN item.fields THEN item.fields[key]
  ELSE <<>>

\* A patch entry [key, kind, s, n]: a string s, a number n, or one of the
\* operators $inc (by n), $append and $prepend (of s)
Patch(key, kind, s, n) == [key |-> key, kind |-> kind, s |-> s, n |-> n]

\* Sheet.update, lines 70-98: the text a patch entry stores
PatchValue(p, orgValue) ==
  CASE p.kind = "string" -> p.s
    [] p.kind = "number" -> IntToString(p.n)
    [] p.kind = "$inc" ->
         IntToString(p.n + (IF AllDigits(orgValue) THEN DigitsToNat(orgValue) ELSE 0))
    [] p.kind = "$append" -> orgValue \o p.s
    [] p.kind = "$prepend" -> p.s \o orgValue

\* Sheet.update, lines 63-99: the line of one matched document, an object
\* keyed by 1-based column number (0 for a key the header lacks)
LineOf(item, header, patch) ==
  Obj([i \in 1..Len(patch) |->
        <<NatToString(IndexOf(header, patch[i].key) + 1),
          PatchValue(patch[i], ItemOrEmpty(item, patch[i].key))>>])

\* Sheet.update, lines 62-102: one [row, data] per distinct row
RECURSIVE UpdateData(_, _, _, _)
UpdateData(docs, header, patch, updateData) ==
  IF Len(docs) = 0 THEN updateData
  ELSE LET item == Head(docs)
           seen == \E i \in 1..Len(updateData) : updateData[i].row = item.row
       IN UpdateData(Tail(docs), header, patch,
                     IF seen THEN updateData
                     ELSE Append(updateData,
                                 [row |-> item.row, data |-> LineOf(item, header, patch)]))

\* Sheet.update
sheetUpdate(st, query, patch) ==
  LET Found(f) ==
        IF f.status # "ok" THEN Ret(f.st, f.status, <<>>)
        ELSE update(f.st, TRUE, UpdateData(f.ret.docs, f.ret.header, patch, <<>>),
                    SheetOption, TRUE)
  IN Found(find(st, query, Options(FALSE, 0, 0, <<>>, TRUE)))

\* Sheet.delete
sheetDelete(st, query) ==
  LET Found(f) ==
        IF f.status # "ok" THEN Ret(f.st, f.status, <<>>)
        ELSE delete(f.st, [i \in 1..Len(f.ret.docs) |-> f.ret.docs[i].row], <<>>,
                    SheetOption)
  IN IF ~query.given THEN Ret(st, "InvalidArgument", <<>>)
     ELSE Found(find(st, query, NoOptions))

----------------------------------------------------------------------------
(* The state machine.  A call runs from the state it finds to its return   *)
(* without another call of the same caller in between; last records it:    *)
(* its name and arguments, how it ended, what it returned, the transport   *)
(* calls it issued in order, the spreadsheet and the cache as it found     *)
(* them, and the kind ("read" or "write") of the call before it.  wrote   *)
(* is the record of the last call that was a writing one.                  *)

\* The number of calls in one behaviour that write, or read past the snapshot
MaxOps == 1

\* The number of writing calls of the Document Engine in a sequence of them
MaxSheetOps == 2

\* The columns the service may start an appended range at: 1..MaxStartCol
MaxStartCol == 2

\* The number of row positions one Adapter delete is given
MaxDelete == 2

NameA == <<"a">>
NameB == <<"b">>
NameC == <<"c">>
NameD == <<"d">>

\* The sheet with id 0, with a header, a full row and a short row
\* The declared dimensions of the sheet the calls work on
SheetRows == 4
SheetColumns == 4

Sheet0 ==
  [NewSheet(0, <<"s">>) EXCEPT
     !.rowCount = SheetRows,
     !.columnCount = SheetColumns,
     !.values = <<<<NameA, NameB>>, <<<<"x">>, <<"5">>>>, <<<<"y">>>>>>]

\* The same sheet before anything was written to it
Sheet0Empty == [Sheet0 EXCEPT !.values = <<>>]

Sheet1 == NewSheet(1, <<"t">>)

InitRemotes == {<<Sheet0>>, <<Sheet0Empty>>}

NoCall ==
  [op |-> "none", kind |-> "none", args |-> <<>>, status |-> "ok", ret |-> <<>>,
   log |-> <<>>, pre |-> <<>>, preData |-> FALSE, after |-> "none"]

\* The inserts that may be under way at the same time
MaxInserts == 2

Procs == 1..MaxInserts

\* An insert under way: pc is where it waits ("idle" before it is called,
\* "read" with the header read and its documents placed, "rewritten" with
\* the header rewritten, "done" or "failed" when it returned), placed what
\* lines 29-41 made of its documents, log its transport calls so far, pre the
\* spreadsheet as the service held it when the insert was called, startRow
\* the row its append reported (0 before that)
NoInsert ==
  [pc |-> "idle", items |-> <<>>,
   placed |-> [header |-> <<>>, addHeaders |-> <<>>, values |-> <<>>],
   log |-> <<>>, pre |-> <<>>, startRow |-> 0]

NoInserts == [p \in Procs |-> NoInsert]

\* The loads that may be under way at the same time
MaxLoads == 2

Loaders == 1..MaxLoads

\* A load under way: pc is where it waits ("idle" before it is called,
\* "fetching" at the await of line 20, "returned" after line 75), reply what
\* the service answers to its spreadsheets.get
NoFetch == [pc |-> "idle", reply |-> <<>>]

NoFetches == [p \in Loaders |-> NoFetch]

Init ==
  /\ remote \in InitRemotes
  /\ data = NoData
  /\ last = NoCall
  /\ wrote = NoCall
  /\ nops = 0
  /\ inserts = NoInserts
  /\ fetches = NoFetches

\* The call in progress at its start, the transport rejecting its f-th call
Start(f) == [remote |-> remote, data |-> data, log |-> <<>>, fail |-> f]

Record(op, kind, args, r) ==
  [op |-> op, kind |-> kind, args |-> args, status |-> r.status, ret |-> r.ret,
   log |-> r.st.log, pre |-> remote, preData |-> data.present, after |-> last.kind]

\* A reading call op(args), Run(f) being its run with the f-th transport call
\* rejected; no transport call of a reading call is rejected here
Read(op, args, Run(_)) ==
  LET Done(r) ==
        /\ remote' = r.st.remote
        /\ data' = r.st.data
        /\ last' = Record(op, "read", args, r)
        /\ UNCHANGED <<wrote, nops, inserts, fetches>>
  IN Done(Run(0))

\* A reading call op(args) any one of whose transport calls may be rejected,
\* one of at most `most` calls that are counted
ReadOrFail(op, args, most, Run(_)) ==
  LET Done(r) ==
        /\ remote' = r.st.remote
        /\ data' = r.st.data
        /\ last' = Record(op, "read", args, r)
        /\ nops' = nops + 1
        /\ UNCHANGED <<wrote, inserts, fetches>>
      Calls(r) == Len(r.st.log)
  IN /\ nops < most
     /\ \E f \in 0..Calls(Run(0)) : Done(Run(f))

\* A writing call op(args); when failing, the transport may reject any one of
\* its calls
Write(op, args, failing, most, Run(_)) ==
  LET Done(r, rec) ==
        /\ remote' = r.st.remote
        /\ data' = r.st.data
        /\ last' = rec
        /\ wrote' = rec
        /\ nops' = nops + 1
        /\ UNCHANGED <<inserts, fetches>>
      Returned(r) == Done(r, Record(op, "write", args, r))
      Calls(r) == Len(r.st.log)
  IN /\ nops < most
     /\ \E f \in 0..(IF failing THEN Calls(Run(0)) ELSE 0) : Returned(Run(f))

----------------------------------------------------------------------------
(* The calls of the Document Engine *)

\* Documents to insert, each a sequence of <<key, text>>
DocA == <<<<NameA, <<"z">>>>>>
DocCA == <<<<NameC, <<"7">>>>, <<NameA, <<"z">>>>>>
DocB == <<<<NameB, <<"w">>>>>>

InsertInputs == {<<DocCA>>, <<DocB, DocA>>}

\* The rows of the sheet the engine works on that hold data
GridRows ==
  LET p == SheetPos(remote, 0)
  IN IF p = 0 THEN {} ELSE 2..Len(remote[p].values)

RowQueries == {Query(<<TermNum(RowKey, r)>>) : r \in GridRows}

QueryAX == Query(<<TermStr(NameA, <<"x">>)>>)

\* The queries {b: {$gt: 3}}, {b: {$lt: 9}}, {b: {$gte: 5}}, {b: {$lte: 5}}
\* and {a: {$gt: 0}}
CmpQueries ==
  {Query(<<TermCmp(NameB, "$gt", 3)>>), Query(<<TermCmp(NameB, "$lt", 9)>>),
   Query(<<TermCmp(NameB, "$gte", 5)>>), Query(<<TermCmp(NameB, "$lte", 5)>>),
   Query(<<TermCmp(NameA, "$gt", 0)>>)}

\* The calls of find: <<query, options>>
FindCalls ==
  {<<NoQuery, NoOptions>>,
   <<QueryAX, NoOptions>>,
   <<NoQuery, Options(TRUE, 1, 0, <<>>, FALSE)>>,
   <<QueryAX, Options(TRUE, 2, 0, <<>>, FALSE)>>,
   <<NoQuery, Options(TRUE, 2, 1, <<>>, FALSE)>>,
   <<NoQuery, Options(FALSE, 0, 0, <<<<RowKey, -1>>>>, FALSE)>>,
   <<NoQuery, Options(TRUE, 3, 1, <<<<RowKey, -1>>>>, TRUE)>>}
  \cup {<<q, NoOptions>> : q \in RowQueries \cup CmpQueries}

DeleteQueries == {NoQuery, Query(<<>>), QueryAX} \cup RowQueries

UpdateQueries == {Query(<<>>), QueryAX}

Patches ==
  {<<Patch(NameB, "string", <<"w">>, 0)>>,
   <<Patch(NameB, "$inc", <<>>, 3)>>,
   <<Patch(NameC, "string", <<"w">>, 0)>>}

Insert(most) ==
  \E items \in InsertInputs, c \in 1..MaxStartCol :
    Write("Sheet.insert", [items |-> items, c |-> c], TRUE, most,
          LAMBDA f : insert(Start(f), items, c))

Find ==
  \E call \in FindCalls :
    Read("Sheet.find", [query |-> call[1], options |-> call[2]],
         LAMBDA f : find(Start(f), call[1], call[2]))

FindOne ==
  \E query \in RowQueries :
    Read("Sheet.findOne", [query |-> query], LAMBDA f : findOne(Start(f), query, NoOptions))

SheetUpdate(most) ==
  \E query \in UpdateQueries, patch \in Patches :
    Write("Sheet.update", [query |-> query, patch |-> patch], FALSE, most,
          LAMBDA f : sheetUpdate(Start(f), query, patch))

SheetDelete(most) ==
  \E query \in DeleteQueries :
    Write("Sheet.delete", [query |-> query], FALSE, most,
          LAMBDA f : sheetDelete(Start(f), query))

\* One writing call, and the reads around it
Next == Insert(MaxOps) \/ Find \/ FindOne \/ SheetUpdate(MaxOps) \/ SheetDelete(MaxOps)

Spec == Init /\ [][Next]_vars

\* Writing calls one after the other, and the reads around them
NextSequence ==
  \/ Insert(MaxSheetOps) \/ Find \/ FindOne
  \/ SheetUpdate(MaxSheetOps) \/ SheetDelete(MaxSheetOps)

SpecSequence == Init /\ [][NextSequence]_vars

\* The sheet with a number below zero in column b
SheetNegative ==
  [Sheet0 EXCEPT !.values = <<<<NameA, NameB>>, <<<<"x">>, <<"-", "5">>>>, <<<<"y">>>>>>]

InitPatch ==
  /\ remote \in {<<Sheet0>>, <<SheetNegative>>}
  /\ data = NoData
  /\ last = NoCall
  /\ wrote = NoCall
  /\ nops = 0
  /\ inserts = NoInserts
  /\ fetches = NoFetches

\* One update of the Document Engine, and the finds around it
NextPatch == SheetUpdate(MaxOps) \/ Find

SpecPatch == InitPatch /\ [][NextPatch]_vars

\* The column indexes converted, 1..MaxColumn, and the longest letter
\* sequence converted
MaxColumn == 704
MaxLetters == 2

LetterSeqs ==
  UNION {[1..k -> {Letters[d] : d \in 1..26}] : k \in 1..MaxLetters}

\* The argument of the conversion to come is drawn at the start: last holds
\* it before the call, and the call with its result after it
InitLetters ==
  /\ remote = <<Sheet0>>
  /\ data = NoData
  /\ last \in {[NoCall EXCEPT !.args = [column |-> column]] : column \in 1..MaxColumn}
                \cup {[NoCall EXCEPT !.args = [letter |-> letter]] : letter \in LetterSeqs}
  /\ wrote = NoCall
  /\ nops = 0
  /\ inserts = NoInserts
  /\ fetches = NoFetches

Converted(op, ret) ==
  /\ last' = [last EXCEPT !.op = op, !.kind = "read", !.ret = ret, !.pre = remote]
  /\ UNCHANGED <<remote, data, wrote, nops, inserts, fetches>>

ColumnToLetter ==
  /\ last.op = "none" /\ "column" \in DOMAIN last.args
  /\ Converted("Sheet.columnToLetter", columnToLetter(last.args.column))

ColumnLetterToIndex ==
  /\ last.op = "none" /\ "letter" \in DOMAIN last.args
  /\ Converted("Spreadsheet.columnLetterToIndex",
               [index |-> columnLetterToIndex(last.args.letter)])

NextLetters == ColumnToLetter \/ ColumnLetterToIndex

SpecLetters == InitLetters /\ [][NextLetters]_vars

\* Inserts called on one Sheet while others wait for the transport.  An
\* insert gives way at each await; here it runs from one Adapter call of
\* lines 24, 44 and 47 to the next without another insert in between.
DocDC == <<<<NameD, <<"8">>>>, <<NameC, <<"7">>>>>>
DocD == <<<<NameD, <<"8">>>>>>

ConcurrentInputs == {<<DocCA>>, <<DocDC>>, <<DocD>>}

\* The call in progress of insert p, at its next Adapter call
Resume(p) == [remote |-> remote, data |-> data, log |-> inserts[p].log, fail |-> 0]

\* Insert p has gone through the Adapter call that returned r, and waits at pc
Stepped(p, r, pc) ==
  /\ remote' = r.st.remote
  /\ data' = r.st.data
  /\ inserts' = [inserts EXCEPT ![p].pc = IF r.status = "ok" THEN pc ELSE "failed",
                                 ![p].log = r.st.log]
  /\ UNCHANGED <<last, wrote, nops, fetches>>

\* insert, lines 24-41: the header is read and the documents are placed
InsertGetHeader(p) ==
  LET Headed(h, items) ==
        /\ remote' = h.st.remote
        /\ data' = h.st.data
        /\ inserts' = [inserts EXCEPT ![p] =
              [pc |-> IF h.status = "ok" THEN "read" ELSE "failed",
               items |-> items,
               placed |-> IF h.status = "ok" THEN PlaceItems(h.ret, <<>>, <<>>, items)
                          ELSE NoInsert.placed,
               log |-> h.st.log, pre |-> remote, startRow |-> 0]]
        /\ UNCHANGED <<last, wrote, nops, fetches>>
  IN /\ inserts[p].pc = "idle"
     /\ \E items \in ConcurrentInputs : Headed(getHeader(Resume(p)), items)

\* insert, lines 43-45: the header is rewritten when a field was added
InsertUpdateHeader(p) ==
  /\ inserts[p].pc = "read"
  /\ Len(inserts[p].placed.addHeaders) > 0
  /\ Stepped(p, updateHeader(Resume(p), inserts[p].placed.header), "rewritten")

\* insert, lines 47-49: the rows are appended and the insert returns
InsertAppend(p) ==
  LET Returned(x) ==
        /\ remote' = x.st.remote
        /\ data' = x.st.data
        /\ inserts' = [inserts EXCEPT ![p].pc = IF x.status = "ok" THEN "done" ELSE "failed",
                                       ![p].log = x.st.log,
                                       ![p].startRow = IF x.status = "ok" THEN x.ret.startRow
                                                       ELSE 0]
        /\ last' = [op |-> "Sheet.insert", kind |-> "write",
                    args |-> [items |-> inserts[p].items, c |-> 1],
                    status |-> x.status,
                    ret |-> IF x.status # "ok" THEN NoDocs
                            ELSE valuesToData(<<inserts[p].placed.header>>
                                                \o inserts[p].placed.values,
                                              x.ret.startRow, FALSE),
                    log |-> x.st.log, pre |-> inserts[p].pre,
                    preData |-> FALSE, after |-> last.kind]
        /\ wrote' = last'
        /\ nops' = nops + 1
        /\ UNCHANGED fetches
  IN /\ \/ inserts[p].pc = "rewritten"
        \/ inserts[p].pc = "read" /\ Len(inserts[p].placed.addHeaders) = 0
     /\ Returned(append(Resume(p), SeqMap(Arr, inserts[p].placed.values), SheetOption, 1))

NextConcurrent ==
  \E p \in Procs : InsertGetHeader(p) \/ InsertUpdateHeader(p) \/ InsertAppend(p)

SpecConcurrent == Init /\ [][NextConcurrent]_vars


----------------------------------------------------------------------------
(* The calls of the Grid Adapter, made on a Spreadsheet directly *)

AdapterRemotes == {<<Sheet0>>, <<Sheet0, Sheet1>>}

InitAdapter ==
  /\ remote \in AdapterRemotes
  /\ data = NoData
  /\ last = NoCall
  /\ wrote = NoCall
  /\ nops = 0
  /\ inserts = NoInserts
  /\ fetches = NoFetches

\* Rows to append: a full row, a short row above a full one, a row keyed by letter
AppendInputs ==
  {<<Arr(<<<<"p">>, <<"q">>>>)>>,
   <<Arr(<<<<"p">>>>), Arr(<<<<"p">>, <<"q">>>>)>>,
   <<Obj(<<<<<<"B">>, <<"q">>>>>>)>>}

\* Rows to update: within the sheet, below its last row, wider than the
\* sheet, a single cell that reads as a number, and a row keyed by column
\* number
UpdateInputs ==
  {<<[row |-> 2, data |-> Arr(<<<<"p">>>>)]>>,
   <<[row |-> SheetRows + 2, data |-> Arr(<<<<"p">>, <<"q">>>>)],
     [row |-> SheetRows + 1, data |-> Arr(<<<<"p">>>>)]>>,
   <<[row |-> 2, data |-> Arr([j \in 1..(SheetColumns + 2) |-> <<"p">>])],
     [row |-> 3, data |-> Arr([j \in 1..(SheetColumns + 1) |-> <<"q">>])]>>,
   <<[row |-> 2, data |-> Arr(<<NatToString(SheetColumns + 4)>>)]>>,
   <<[row |-> 2, data |-> Obj(<<<<<<"2">>, <<"q">>>>>>)]>>}

\* The sequences of at most n distinct elements of S
RECURSIVE DistinctSeqs(_, _)
DistinctSeqs(S, n) ==
  IF n = 0 THEN {<<>>}
  ELSE LET shorter == DistinctSeqs(S, n - 1)
       IN shorter \cup
          UNION {{Append(q, x) : x \in {y \in S : \A i \in 1..Len(q) : q[i] # y}} :
                 q \in shorter}

\* The row positions of the sheet with id 0 that hold data, and the one below
RowPositions ==
  LET p == SheetPos(remote, 0)
  IN IF p = 0 THEN {} ELSE 1..(Len(remote[p].values) + 1)

Load == Read("Spreadsheet.load", <<>>, LAMBDA f : load(Start(f)))

AddSheet ==
  \E title \in {<<"t">>, <<"u">>} :
    Write("Spreadsheet.addSheet", [title |-> title], TRUE, MaxOps,
          LAMBDA f : addSheet(Start(f), title))

DeleteSheet ==
  \E sel \in {SelNone, SelNum(1)} :
    Write("Spreadsheet.deleteSheet", [sheet |-> sel], TRUE, MaxOps,
          LAMBDA f : deleteSheet(Start(f), sel))

AppendRows ==
  \E rows \in AppendInputs, c \in 1..MaxStartCol :
    Write("Spreadsheet.append", [rows |-> rows, c |-> c], TRUE, MaxOps,
          LAMBDA f : append(Start(f), rows, SelNone, c))

UpdateRows ==
  \E updateRows \in UpdateInputs, upsert \in BOOLEAN :
    Write("Spreadsheet.update", [updateRows |-> updateRows, upsert |-> upsert], TRUE, MaxOps,
          LAMBDA f : update(Start(f), TRUE, updateRows, SelNone, upsert))

DeleteRows ==
  \E rows \in DistinctSeqs(RowPositions, MaxDelete), columns \in {<<>>, <<1>>} :
    Write("Spreadsheet.delete", [rows |-> rows, columns |-> columns], TRUE, MaxOps,
          LAMBDA f : delete(Start(f), rows, columns, SelNone))

ExpandSheet ==
  \E rows \in 0..1, columns \in 0..1 :
    Write("Spreadsheet.expand", [rows |-> rows, columns |-> columns], TRUE, MaxOps,
          LAMBDA f : expand(Start(f), rows, columns, 0))

\* list with fresh set: the header row, or the rows below it
ListFresh(most) ==
  \E start \in 1..2 :
    ReadOrFail("Spreadsheet.list", [start |-> start, limit |-> start, fresh |-> TRUE], most,
               LAMBDA f : listFresh(Start(f), SelNone, start, start))

NextAdapter ==
  \/ Load \/ AddSheet \/ DeleteSheet \/ AppendRows \/ UpdateRows \/ DeleteRows
  \/ ExpandSheet \/ ListFresh(MaxOps)

SpecAdapter == InitAdapter /\ [][NextAdapter]_vars

----------------------------------------------------------------------------
(* The reading calls of the Grid Adapter, the transport failing or not *)

\* The number of reading calls in one behaviour
MaxReads == 2

\* The first sheet renamed to the text of the second sheet's id
SheetOne == [Sheet0 EXCEPT !.title = <<"1">>]

ReadRemotes == {<<Sheet0>>, <<Sheet0, Sheet1>>, <<SheetOne, Sheet1>>}

InitReads ==
  /\ remote \in ReadRemotes
  /\ data = NoData
  /\ last = NoCall
  /\ wrote = NoCall
  /\ nops = 0
  /\ inserts = NoInserts
  /\ fetches = NoFetches

\* Selectors: omitted, ids that exist or not, titles that exist or not
Selectors ==
  {SelNone, SelNum(1), SelNum(7), SelStr(<<"1">>), SelStr(<<"t">>), SelStr(<<"7">>)}

LoadSnapshot ==
  ReadOrFail("Spreadsheet.load", <<>>, MaxReads, LAMBDA f : load(Start(f)))

GetSheet ==
  \E sel \in Selectors :
    ReadOrFail("Spreadsheet.getSheet", [sheet |-> sel], MaxReads,
               LAMBDA f : getSheet(Start(f), sel))

ListRows ==
  \E start \in 1..2 :
    ReadOrFail("Spreadsheet.list", [start |-> start, limit |-> start, fresh |-> FALSE],
               MaxReads, LAMBDA f : list(Start(f), SelNone, start, start))

NextReads == LoadSnapshot \/ GetSheet \/ ListRows \/ ListFresh(MaxReads)

SpecReads == InitReads /\ [][NextReads]_vars

\* Loads called on one Spreadsheet while writing calls are made on it.  A
\* load gives way at the await of its fetch; the service answers the fetch
\* when it is issued, and a writing call runs from its start to its return
\* while the load waits.

\* load, lines 16-23: with a snapshot cached the load returns it; without,
\* it issues spreadsheets.get and waits
LoadCall(p) ==
  LET Issued(c) ==
        /\ fetches' = [fetches EXCEPT ![p] = [pc |-> "fetching", reply |-> c.res]]
        /\ UNCHANGED <<remote, data, last>>
      Cached ==
        /\ fetches' = [fetches EXCEPT ![p].pc = "returned"]
        /\ last' = [op |-> "Spreadsheet.load", kind |-> "read", args |-> <<>>,
                    status |-> "ok", ret |-> data, log |-> <<>>, pre |-> remote,
                    preData |-> TRUE, after |-> last.kind]
        /\ UNCHANGED <<remote, data>>
  IN /\ fetches[p].pc = "idle"
     /\ IF data.present THEN Cached ELSE Issued(ApiGet(Start(0)))
     /\ UNCHANGED <<wrote, nops, inserts>>

\* load, lines 24-75: the reply has come, the snapshot made of it is stored
\* in this.data and returned
LoadStore(p) ==
  LET Stored(d) ==
        /\ data' = d
        /\ last' = [op |-> "Spreadsheet.load", kind |-> "read", args |-> <<>>,
                    status |-> "ok", ret |-> d,
                    log |-> <<Entry("spreadsheets.get", <<>>, <<>>, TRUE)>>,
                    pre |-> fetches[p].reply, preData |-> FALSE, after |-> last.kind]
  IN /\ fetches[p].pc = "fetching"
     /\ Stored([present |-> TRUE, sheets |-> SnapshotSheets(fetches[p].reply)])
     /\ fetches' = [fetches EXCEPT ![p].pc = "returned"]
     /\ UNCHANGED <<remote, wrote, nops, inserts>>

NextInterleaved ==
  \/ \E p \in Loaders : LoadCall(p) \/ LoadStore(p)
  \/ AppendRows \/ UpdateRows \/ DeleteRows

SpecInterleaved == InitAdapter /\ [][NextInterleaved]_vars


----------------------------------------------------------------------------
(* Properties.  Each is a predicate on the call that returned last.        *)

\* The sheet with id 0 of a spreadsheet rem, which holds it
SheetOf(rem) == rem[SheetPos(rem, 0)]

\* The positions in log of the calls of method
CallsOf(log, method) == {k \in 1..Len(log) : log[k].method = method}

\* The requests of one kind and dimension that the batch at log[k] carries
RequestsOf(log, k, kind, dimension) ==
  SelectSeq(log[k].requests, LAMBDA q : q.kind = kind /\ q.dimension = dimension)

\* Whether the call wrote to the service
WroteToService(log) ==
  \E k \in 1..Len(log) : log[k].ok /\ log[k].method # "spreadsheets.get"

\* C1: after every successful mutating call of the Grid Adapter (append,
\* update, delete, expand, addSheet, deleteSheet) the cached snapshot is
\* absent when the call returns.  Stated of the calls that wrote to the
\* service; a call that sent nothing is left out.
C1_CacheAbsentAfterMutation ==
  (last.kind = "write" /\ last.status = "ok" /\ WroteToService(last.log))
    => ~data.present

\* The documents of the sheet the engine works on, as the snapshot holds them
AllDocuments == valuesToData(SheetOf(data.sheets).values, 0, FALSE).docs

\* The documents that match query, in the order sort gives them
SortedMatching(docs, query, sort) ==
  LET Matching(filter) == SelectSeq(docs, LAMBDA item : filterFn(filter, item))
      Ordered(matching) == IF Len(sort) > 0 THEN SortDocs(matching, sort) ELSE matching
  IN Ordered(Matching(buildFilter(query)))

\* The query {_row: r}
RowQuery(r) == Query(<<TermNum(RowKey, r)>>)

\* C2: for every document D that insert returned, a following
\* findOne({_row: D._row}) returns a document, and its fields other than
\* _row equal those of D.
C2_InsertFindOneRoundTrip ==
  (/\ last.op = "Sheet.findOne" /\ last.status = "ok" /\ last.after = "write"
   /\ wrote.op = "Sheet.insert" /\ wrote.status = "ok")
    => \A i \in 1..Len(wrote.ret.docs) :
         last.args.query = RowQuery(wrote.ret.docs[i].row)
           => /\ last.ret.found
              /\ last.ret.doc.fields = wrote.ret.docs[i].fields

\* C3: find filters, then sorts, then takes the window: for skip k and limit
\* n it returns elements k+1..k+n of the sorted sequence of all the documents
\* of the sheet that match the query.
C3_FilterSortThenWindow ==
  (/\ last.op = "Sheet.find" /\ last.status = "ok"
   /\ last.args.options.hasLimit /\ last.args.options.limit > 0)
    => last.ret.docs =
         Slice(SortedMatching(AllDocuments, last.args.query, last.args.options.sort),
               last.args.options.skip,
               last.args.options.skip + last.args.options.limit)

\* What find answers when it reads the grid rem of the service itself
FindOn(rem, query, options) ==
  filterData(valuesToData(Slice(SheetOf(rem).values, 0,
                                IF options.hasLimit THEN options.limit
                                ELSE DefaultLimit),
                          0, options.header),
             query, options)

\* The documents docs without the one at row r, those below it moved up by one
WithoutRow(docs, r) ==
  LET kept == SelectSeq(docs, LAMBDA item : item.row # r)
  IN [k \in 1..Len(kept) |->
       [kept[k] EXCEPT !.row = IF @ > r THEN @ - 1 ELSE @]]

\* C4: after a successful Sheet.delete, Sheet.insert or Sheet.update the next
\* find fetches the whole grid anew (one spreadsheets.get) and answers from
\* the grid as that write left it; after delete({_row: r}) of a document at
\* row r, find({}) returns the documents there were before, without that one.
C4_FindAfterWriteIsFresh ==
  (/\ last.op = "Sheet.find" /\ last.after = "write"
   /\ wrote.op \in {"Sheet.delete", "Sheet.insert", "Sheet.update"}
   /\ wrote.status = "ok")
    => /\ Len(last.log) = 1
       /\ last.log[1].method = "spreadsheets.get" /\ last.log[1].ok
       /\ last.status = "ok"
       /\ last.ret = FindOn(remote, last.args.query, last.args.options)
       /\ data = [present |-> TRUE, sheets |-> remote]
       /\ \A r \in 2..Len(SheetOf(wrote.pre).values) :
            (/\ wrote.op = "Sheet.delete" /\ wrote.args.query = RowQuery(r)
             /\ last.args.query = NoQuery /\ last.args.options = NoOptions
             /\ \E item \in
                  {valuesToData(SheetOf(wrote.pre).values, 0, FALSE).docs[k] :
                     k \in 1..Len(valuesToData(SheetOf(wrote.pre).values, 0, FALSE).docs)} :
                  item.row = r)
              => last.ret.docs =
                   WithoutRow(valuesToData(SheetOf(wrote.pre).values, 0, FALSE).docs, r)

\* C5: Sheet.delete called with no query, or with an empty query mapping,
\* fails with InvalidArgument before any transport call is issued.
C5_DeleteRequiresQuery ==
  (/\ last.op = "Sheet.delete"
   /\ (~last.args.query.given \/ Len(last.args.query.terms) = 0))
    => /\ last.status = "InvalidArgument"
       /\ last.log = <<>>

\* The rows of values whose positions are not in gone
RowsKept(values, gone) ==
  LET kept == SelectSeq([i \in 1..Len(values) |-> i], LAMBDA i : i \notin gone)
  IN [k \in 1..Len(kept) |-> values[kept[k]]]

\* The elements of a sequence
Range(seq) == {seq[i] : i \in 1..Len(seq)}

\* C6: delete called with distinct row numbers sends one batched call whose
\* deleteDimension ROWS requests are one per row, in strictly descending row
\* order, and the service applying them in that order removes exactly the rows
\* at the requested positions.
C6_RowsDeletedHighestFirst ==
  (/\ last.op = "Spreadsheet.delete" /\ last.status = "ok"
   /\ Len(last.args.rows) > 0)
    => /\ Cardinality(CallsOf(last.log, "spreadsheets.batchUpdate")) = 1
       /\ \A k \in CallsOf(last.log, "spreadsheets.batchUpdate") :
            LET reqs == RequestsOf(last.log, k, "deleteDimension", "ROWS")
            IN /\ Len(reqs) = Len(last.args.rows)
               /\ {reqs[i].startIndex + 1 : i \in 1..Len(reqs)} = Range(last.args.rows)
               /\ \A i \in 1..Len(reqs) : reqs[i].endIndex = reqs[i].startIndex + 1
               /\ \A i \in 1..Len(reqs), j \in 1..Len(reqs) :
                    i < j => reqs[i].startIndex > reqs[j].startIndex
       /\ last.args.columns = <<>>
            => /\ SheetOf(remote).values =
                    TrimGrid(RowsKept(SheetOf(last.pre).values, Range(last.args.rows)))
               /\ SheetOf(remote).rowCount =
                    SheetOf(last.pre).rowCount - Len(last.args.rows)

\* A reachable state: two rows given lowest first were deleted, the lower of
\* them above a row that stays
C6_TwoRowsGivenAscending ==
  /\ last.op = "Spreadsheet.delete" /\ last.status = "ok"
  /\ last.args.columns = <<>>
  /\ Len(last.args.rows) = 2 /\ last.args.rows[1] < last.args.rows[2]
  /\ Len(SheetOf(remote).values) > 0
  /\ Len(SheetOf(last.pre).values) > last.args.rows[1]

\* The corrective writes of an append: the values.batchUpdate calls of its log
Correctives(log) == CallsOf(log, "spreadsheets.values.batchUpdate")

\* The rows an append hands to the service
AppendedValues == SeqMap(dataToValue, last.args.rows)

\* The widest of the rows of values
Widest(values) ==
  CHOOSE n \in {Len(values[i]) : i \in 1..Len(values)} :
    \A i \in 1..Len(values) : Len(values[i]) <= n

\* The corrective writes of the append that returned last have the rows
\* startRow..endRow of the inserted range, each row being its original values
\* followed by Padding(i) empty cells
CorrectiveIs(startRow, endRow, Padding(_)) ==
  \A k \in Correctives(last.log) :
    /\ Len(last.log[k].data) = 1
    /\ last.log[k].data[1].title = SheetOf(last.pre).title
    /\ last.log[k].data[1].startRow = startRow
    /\ last.log[k].data[1].endRow = endRow
    /\ last.log[k].data[1].values =
         [i \in 1..Len(AppendedValues) |->
           AppendedValues[i] \o [j \in 1..Padding(i) |-> <<>>]]

\* The append the service accepted, of the call that returned last
Accepted ==
  /\ last.op = "Spreadsheet.append"
  /\ \E k \in CallsOf(last.log, "spreadsheets.values.append") : last.log[k].ok

\* The first row of the range the service inserted
InsertedStart == Len(SheetOf(last.pre).values) + 1

\* C7 as the specification has it: when the inserted range starts at a column
\* other than A, exactly one corrective values.batchUpdate is sent, covering
\* rows startRow..endRow from column A, every row being its original values
\* followed by (original start column - 1) empty cells; when the range starts
\* at column A no corrective write is sent.
C7_PaddedByStartColumn ==
  Accepted
    => /\ Cardinality(Correctives(last.log)) = IF last.args.c # 1 THEN 1 ELSE 0
       /\ CorrectiveIs(InsertedStart, InsertedStart + Len(AppendedValues) - 1,
                       LAMBDA i : last.args.c - 1)

\* C7, as the code has it: when the inserted range starts at a column other
\* than A, exactly one corrective values.batchUpdate is sent, covering rows
\* startRow..endRow from column A, every row being its original values
\* followed by empty cells up to the end column of the inserted range (end
\* column - length of the row: start column - 1 for the widest rows, more for
\* the shorter ones); when the range starts at column A none is sent.
C7_PaddedToEndColumn ==
  Accepted
    => /\ Cardinality(Correctives(last.log)) = IF last.args.c # 1 THEN 1 ELSE 0
       /\ CorrectiveIs(InsertedStart, InsertedStart + Len(AppendedValues) - 1,
                       LAMBDA i : last.args.c + Widest(AppendedValues) - 1
                                    - Len(AppendedValues[i]))

\* A reachable state: rows of unequal length were appended from column B on
\* and the corrective write went through
C7_RaggedRowsFromColumnB ==
  /\ Accepted /\ last.status = "ok" /\ last.args.c = 2
  /\ Cardinality(Correctives(last.log)) = 1
  /\ \E i \in 1..Len(AppendedValues) : Len(AppendedValues[i]) < Widest(AppendedValues)

\* The largest of a set of integers
MaxOf(S) == CHOOSE x \in S : \A y \in S : y <= x

\* The row numbers an update targets, and the widths of its dense rows
TargetRows == {last.args.updateRows[i].row : i \in 1..Len(last.args.updateRows)}

TargetWidths ==
  {Len(dataToValue(last.args.updateRows[i].data)) : i \in 1..Len(last.args.updateRows)}

\* An update with upsert set that found its sheet
Upserted ==
  /\ last.op = "Spreadsheet.update" /\ last.args.upsert
  /\ last.status \in {"ok", "TransportError"}

\* Every values write of the log follows a completed batch that carries
\* exactly one appendDimension request of the dimension, of that length
GrownBeforeWrite(log, dimension, length) ==
  \A k \in CallsOf(log, "spreadsheets.values.batchUpdate") :
    \E j \in 1..(k - 1) :
      /\ log[j].method = "spreadsheets.batchUpdate" /\ log[j].ok
      /\ RequestsOf(log, j, "appendDimension", dimension)
           = <<Request("appendDimension", 0, dimension, 0, 0, length, <<>>)>>

\* C8: in update with upsert set, when some target row exceeds the row count
\* of the sheet, one appendDimension ROWS request of the largest overrun is
\* sent and has completed before the values are written; when no target
\* exceeds the bounds of the sheet, no expand request is sent.
C8_RowsGrownBeforeWrite ==
  Upserted
    => /\ MaxOf(TargetRows) > SheetOf(last.pre).rowCount
            => /\ GrownBeforeWrite(last.log, "ROWS",
                                   MaxOf(TargetRows) - SheetOf(last.pre).rowCount)
               /\ last.status = "ok"
                    => CallsOf(last.log, "spreadsheets.values.batchUpdate") # {}
       /\ (/\ MaxOf(TargetRows) <= SheetOf(last.pre).rowCount
           /\ MaxOf(TargetWidths) <= SheetOf(last.pre).columnCount)
            => CallsOf(last.log, "spreadsheets.batchUpdate") = {}

\* C9: in update with upsert set, when the dense values of some target row
\* are more than the columns of the sheet, an appendDimension COLUMNS request
\* of the largest overrun is sent, and has completed, before the values are
\* written.
C9_ColumnsGrownBeforeWrite ==
  (Upserted /\ MaxOf(TargetWidths) > SheetOf(last.pre).columnCount)
    => GrownBeforeWrite(last.log, "COLUMNS",
                        MaxOf(TargetWidths) - SheetOf(last.pre).columnCount)

\* The header of the sheet as the service had it when the call began
HeaderBefore ==
  IF Len(SheetOf(last.pre).values) = 0 THEN <<>> ELSE SheetOf(last.pre).values[1]

\* The fields of the documents given to insert that the header lacks
NewFields ==
  UNION {{last.args.items[i][j][1] : j \in 1..Len(last.args.items[i])} :
           i \in 1..Len(last.args.items)}
    \ Range(HeaderBefore)

\* hdr is the header there was, followed by each new field once
Extended(hdr) ==
  /\ Len(hdr) = Len(HeaderBefore) + Cardinality(NewFields)
  /\ SubSeq(hdr, 1, Len(HeaderBefore)) = HeaderBefore
  /\ Range(SubSeq(hdr, Len(HeaderBefore) + 1, Len(hdr))) = NewFields

\* The call at log[j] is a completed rewrite of row 1 with an extended header
HeaderRewrite(log, j) ==
  /\ log[j].method = "spreadsheets.values.batchUpdate" /\ log[j].ok
  /\ Len(log[j].data) = 1
  /\ log[j].data[1].title = SheetOf(last.pre).title
  /\ log[j].data[1].startRow = 1 /\ log[j].data[1].endRow = 1
  /\ Len(log[j].data[1].values) = 1
  /\ Extended(log[j].data[1].values[1])

\* The rows of a grid below its header
DataRows(values) == IF Len(values) = 0 THEN <<>> ELSE Tail(values)

\* C10: in insert, when some field of the documents is not in the header, the
\* rewrite of header row 1 is issued and has completed before the append is
\* issued; when no field is new, no header write is issued; and when the
\* append then fails, the caller gets the error and the header stays extended
\* with no data row added.
C10_HeaderBeforeAppend ==
  last.op = "Sheet.insert"
    => /\ \A k \in CallsOf(last.log, "spreadsheets.values.append") :
            /\ NewFields # {} => \E j \in 1..(k - 1) : HeaderRewrite(last.log, j)
            /\ ~last.log[k].ok
                 => /\ last.status = "TransportError"
                    /\ DataRows(SheetOf(remote).values)
                         = DataRows(SheetOf(last.pre).values)
                    /\ NewFields # {}
                         => /\ Len(SheetOf(remote).values) > 0
                            /\ Extended(SheetOf(remote).values[1])
       /\ NewFields = {}
            => \A j \in CallsOf(last.log, "spreadsheets.values.batchUpdate") :
                 \E k \in 1..(j - 1) : last.log[k].method = "spreadsheets.values.append"
       /\ (last.status = "ok" /\ Len(last.args.items) > 0)
            => CallsOf(last.log, "spreadsheets.values.append") # {}

\* A reachable state: insert extended the header and its append then failed
C10_AppendFailedAfterHeader ==
  /\ last.op = "Sheet.insert" /\ last.status = "TransportError"
  /\ NewFields # {}
  /\ \E k \in CallsOf(last.log, "spreadsheets.values.append") : ~last.log[k].ok
  /\ SheetOf(remote).values[1] # HeaderBefore

\* The fetch of the snapshot failed in the call
GetFailed(log) == \E k \in CallsOf(log, "spreadsheets.get") : ~log[k].ok

\* C11: load never raises: when its spreadsheets.get fails (or answers
\* without sheets) it returns what was cached, none when the cache was absent,
\* and leaves the cache as it was; a load that finds the cache absent always
\* issues the fetch, so the load after a failed one tries again.
C11_LoadNeverRaises ==
  last.op = "Spreadsheet.load"
    => /\ last.status = "ok"
       /\ remote = last.pre
       /\ last.ret = data
       /\ IF last.preData
          THEN last.log = <<>> /\ data.present
          ELSE /\ Len(last.log) = 1
               /\ last.log[1].method = "spreadsheets.get"
               /\ IF GetFailed(last.log) THEN data = NoData
                  ELSE data = [present |-> TRUE, sheets |-> remote]

\* A reachable state: a load failed, after an earlier call had left the cache
\* absent
C11_LoadFailedAgain ==
  /\ last.op = "Spreadsheet.load" /\ last.after = "read"
  /\ ~last.preData /\ GetFailed(last.log) /\ data = NoData

\* The calls of the Grid Adapter other than load and getSheet
AdapterCalls ==
  {"Spreadsheet.append", "Spreadsheet.update", "Spreadsheet.delete",
   "Spreadsheet.expand", "Spreadsheet.addSheet", "Spreadsheet.deleteSheet",
   "Spreadsheet.list"}

\* C12: a transport failure in an Adapter call, other than that of the
\* snapshot's fetch, reaches the caller as TransportError; no append, update,
\* delete, expand, addSheet, deleteSheet or fresh list returns a success
\* result when one of its transport calls failed.
C12_FailuresPropagate ==
  last.op \in AdapterCalls
    => /\ (\E k \in 1..Len(last.log) :
             ~last.log[k].ok /\ last.log[k].method # "spreadsheets.get")
            => last.status = "TransportError"
       /\ (\E k \in 1..Len(last.log) : ~last.log[k].ok) => last.status # "ok"

\* A reachable state: an update grew the sheet and its values write failed
C12_UpdateFailedAfterGrowth ==
  /\ last.op = "Spreadsheet.update" /\ last.status = "TransportError"
  /\ \E j \in CallsOf(last.log, "spreadsheets.batchUpdate") : last.log[j].ok
  /\ \E k \in CallsOf(last.log, "spreadsheets.values.batchUpdate") : ~last.log[k].ok

\* The positions of the sheets whose id reads as the selector, and of those
\* whose title is the selector
ById(sheets, sel) ==
  {i \in 1..Len(sheets) : NatToString(sheets[i].id) = SelString(sel)}

ByTitle(sheets, sel) ==
  {i \in 1..Len(sheets) : sel.kind = "string" /\ sheets[i].title = sel.s}

\* C13: getSheet returns the sheet whose id equals the selector when there is
\* one, and only otherwise the sheet whose title is the selector; with the
\* selector omitted the sheet with id 0; and no sheet when none matches.
C13_IdBeforeTitle ==
  (last.op = "Spreadsheet.getSheet" /\ data.present)
    => IF ById(data.sheets, last.args.sheet) # {}
       THEN /\ last.ret.found
            /\ NatToString(last.ret.sheet.id) = SelString(last.args.sheet)
       ELSE IF ByTitle(data.sheets, last.args.sheet) # {}
       THEN /\ last.ret.found
            /\ last.ret.sheet.title = last.args.sheet.s
       ELSE ~last.ret.found

\* C14: the result of the Adapter's delete reports as many deleted rows as
\* rows were given and, when columns were given, as many deleted columns as
\* columns were given.
C14_DeleteReportsCounts ==
  (last.op = "Spreadsheet.delete" /\ last.status = "ok")
    => /\ last.ret.deletedRowsCount = Len(last.args.rows)
       /\ Len(last.args.columns) > 0
            => last.ret.deletedColumnsCount =
                 [defined |-> TRUE, nan |-> FALSE, n |-> Len(last.args.columns)]

\* The names that a header row gives to its columns
NamedColumns(header) ==
  {header[j] : j \in {i \in 1..Len(header) : ~Falsy(header[i])}}

\* C15: every document that find returns has a value for every named column
\* of the header, the empty string where the cell is empty or absent, also
\* when its row has fewer cells than the header.
C15_DocumentsFullyPopulated ==
  (last.op = "Sheet.find" /\ last.status = "ok" /\ data.present)
    => \A k \in 1..Len(last.ret.docs) :
         /\ DOMAIN last.ret.docs[k].fields
              = NamedColumns(SheetOf(data.sheets).values[1])
         /\ \A h \in DOMAIN last.ret.docs[k].fields :
              last.ret.docs[k].fields[h] \notin {Null, Hole}

\* Whether the number p satisfies the comparison op with n
Compares(op, p, n) ==
  CASE op = "$gt" -> p > n
    [] op = "$lt" -> p < n
    [] op = "$gte" -> p >= n
    [] op = "$lte" -> p <= n

\* The text reads as an integer: digits, or digits after a minus sign
IntegerText(t) ==
  AllDigits(t) \/ (Len(t) > 1 /\ t[1] = "-" /\ AllDigits(Tail(t)))

\* The text of item's field reads as an integer that satisfies the term
Satisfies(item, term) ==
  LET Reads(t) == IntegerText(t) /\ Compares(term.kind, parseInt(t).n, term.n)
  IN Reads(ItemString(item, term.key))

\* C20: a find whose query is one comparison term ($gt, $lt, $gte or $lte
\* with operand n) returns every document whose field reads as an integer
\* that satisfies the comparison with n, and no document whose field is set
\* and is empty or not a number.
C20_ComparisonNeedsNumber ==
  (/\ last.op = "Sheet.find" /\ last.status = "ok"
   /\ last.args.query \in CmpQueries /\ data.present)
    => LET term == last.args.query.terms[1]
       IN /\ \A k \in 1..Len(last.ret.docs) :
               term.key \in DOMAIN last.ret.docs[k].fields
                 => Satisfies(last.ret.docs[k], term)
          /\ \A k \in 1..Len(AllDocuments) :
               Satisfies(AllDocuments[k], term)
                 => \E j \in 1..Len(last.ret.docs) : last.ret.docs[j] = AllDocuments[k]

\* The cell of column col in row row of a grid, '' when it is empty or absent
CellText(values, row, col) ==
  IF row <= Len(values) /\ col <= Len(values[row]) THEN OrEmpty(values[row][col])
  ELSE <<>>

\* The text that $inc by n makes of the text old
Incremented(old, n) ==
  IntToString((IF IntegerText(old) THEN parseInt(old).n ELSE 0) + n)

\* C18: an update with the patch {field: {$inc: n}}, read from the service,
\* stores for each matched row the text of the integer the field reads as
\* (0 when it does not read as an integer) plus n, also when that integer is
\* below zero.
C18_IncAddsToInteger ==
  (/\ last.op = "Sheet.update" /\ last.status = "ok" /\ ~last.preData
   /\ Len(last.args.patch) = 1 /\ last.args.patch[1].kind = "$inc"
   /\ Len(SheetOf(last.pre).values) > 0
   /\ IndexOf(SheetOf(last.pre).values[1], last.args.patch[1].key) >= 0)
    => LET before == SheetOf(last.pre).values
           col == IndexOf(before[1], last.args.patch[1].key) + 1
           matched == SortedMatching(valuesToData(before, 0, FALSE).docs,
                                     last.args.query, <<>>)
       IN \A k \in 1..Len(matched) :
            CellText(SheetOf(remote).values, matched[k].row, col)
              = Incremented(CellText(before, matched[k].row, col),
                            last.args.patch[1].n)

\* The positions in log of the requests that change the service, and of the
\* reads of the grid
Writes(log) ==
  {k \in 1..Len(log) :
     log[k].method \in {"spreadsheets.values.append",
                        "spreadsheets.values.batchUpdate",
                        "spreadsheets.batchUpdate"}}

GridReads(log) ==
  {k \in 1..Len(log) :
     log[k].method \in {"spreadsheets.get", "spreadsheets.values.get"}}

\* The reads of the grid that come after the first write
ReadsAfterWrite(log) ==
  {j \in GridReads(log) : \E k \in Writes(log) : k < j}

EngineWrites == {"Sheet.insert", "Sheet.update", "Sheet.delete"}

C17_LettersAndIndexesInverse ==
  /\ last.op = "Sheet.columnToLetter"
       => /\ AllLetters(last.ret)
          /\ columnLetterToIndex(last.ret) = last.args.column
          /\ last.args.column = 1 => last.ret = <<"A">>
          /\ last.args.column = 26 => last.ret = <<"Z">>
          /\ last.args.column = 27 => last.ret = <<"A", "A">>
          /\ last.args.column = 52 => last.ret = <<"A", "Z">>
          /\ last.args.column = 703 => last.ret = <<"A", "A", "A">>
  /\ last.op = "Spreadsheet.columnLetterToIndex"
       => /\ last.ret.index >= 1
          /\ columnToLetter(last.ret.index) = last.args.letter

\* A reachable state: column 703, the first of three letters, was converted
C17_ColumnOfThreeLetters ==
  /\ last.op = "Sheet.columnToLetter" /\ last.args.column = 703
  /\ last.ret = <<"A", "A", "A">>

\* The header row of the sheet with id 0 of the spreadsheet rem
HeaderOf(rem) ==
  IF Len(SheetOf(rem).values) = 0 THEN <<>> ELSE SheetOf(rem).values[1]

\* The header row of the sheet as the service holds it
HeaderNow == HeaderOf(remote)

\* The name is in two cells of the header row
Twice(header, name) ==
  \E i, j \in 1..Len(header) : i # j /\ header[i] = name /\ header[j] = name

\* Insert p added the column name and rewrote the header
AddedColumn(p, name) ==
  /\ inserts[p].pc \in {"rewritten", "done", "failed"}
  /\ Len(inserts[p].log) > 0
  /\ \E k \in CallsOf(inserts[p].log, "spreadsheets.values.batchUpdate") :
       inserts[p].log[k].ok /\ inserts[p].log[k].data[1].startRow = 1
  /\ name \in Range(inserts[p].placed.addHeaders)

\* C16: from a header without duplicates, inserts that run at the same time
\* leave a column name twice in header row 1 only when two of them both
\* added that column and each rewrote the header; and such an interleaving
\* exists.
C16_DuplicateOnlyByTwoAdders ==
  \A name \in Range(HeaderNow) :
    (~Falsy(name) /\ Twice(HeaderNow, name))
      => \E p, q \in Procs : p # q /\ AddedColumn(p, name) /\ AddedColumn(q, name)

\* A reachable state: two inserts that both added column c have returned and
\* header row 1 holds c twice
C16_HeaderHoldsColumnTwice ==
  /\ \A p \in Procs : inserts[p].pc = "done" /\ NameC \in Range(inserts[p].placed.addHeaders)
  /\ Twice(HeaderNow, NameC)
  /\ \A p \in Procs : ~Twice(HeaderOf(inserts[p].pre), NameC)

\* The columns that insert p added to the header
AddedBy(p) == Range(inserts[p].placed.addHeaders)

\* The inserts have all returned, each having added columns that no other
\* of them added
DifferentColumnsAdded ==
  /\ \A p \in Procs : inserts[p].pc = "done" /\ AddedBy(p) # {}
  /\ \A p, q \in Procs : p # q => AddedBy(p) \cap AddedBy(q) = {}

\* C22: once inserts that ran at the same time and added different new
\* columns have all returned, every column they added is named in header row
\* 1, and every value they inserted is in the row its insert appended, in a
\* column whose header cell names the field of the value.
C22_ColumnsKeptAndValuesUnderThem ==
  DifferentColumnsAdded
    => \A p \in Procs :
         /\ AddedBy(p) \subseteq Range(HeaderNow)
         /\ \A r \in 1..Len(inserts[p].placed.values) :
              \A i \in 1..Len(inserts[p].placed.values[r]) :
                inserts[p].placed.values[r][i] # Hole
                  => /\ i <= Len(HeaderNow)
                     /\ HeaderNow[i] = inserts[p].placed.header[i]
                     /\ CellText(SheetOf(remote).values,
                                 inserts[p].startRow + r - 1, i)
                          = OrEmpty(inserts[p].placed.values[r][i])

\* C21: with loads and writing calls interleaved on one Spreadsheet, a cache
\* that is populated after a writing call has returned holds the spreadsheet
\* as that call left it: no load stores a snapshot fetched before the write.
\* Stated of the states where the last writing call succeeded.
C21_CacheNeverOlderThanWrite ==
  (data.present /\ wrote.op # "none" /\ wrote.status = "ok")
    => data.sheets = SnapshotSheets(remote)

====
